---- MODULE Spec2Model ----
(***************************************************************************)
(* Model of the vibeout video-metadata service.                            *)
(*   server/main.py           the Resource API over the `videos` table     *)
(*   server/quip_download.py  the Ingestion Sync batch job                 *)
(* The `videos` table is the variable `store`: a function from the ids of  *)
(* the rows that exist to the rows.  Strings are sequences of one-letter   *)
(* strings, so that strip() and ILIKE are computed, not assumed.           *)
(***************************************************************************)
EXTENDS Integers, Sequences, FiniteSets, TLC

VARIABLES
    store,       \* the videos table: [ids of existing rows -> row]
    now,         \* the wall clock read by datetime.utcnow()
    sql_strict,  \* whether the database session runs in a strict sql_mode
    nops,        \* number of requests and sync runs served so far
    last,        \* the last request served: operation, input, outcome, table before it
    sess         \* per worker, the state of its get_video request (concurrent runs);
                 \* in the Presentation Client, st.session_state

vars == <<store, now, sql_strict, nops, last, sess>>

----------------------------------------------------------------------------
\* Bounds of the exploration.
MaxIds == 2
MaxWideOps == 1
MaxRows == 4
MaxPage == 4
MaxPageSize == 3
NumWorkers == 2
MaxOps == 2
MaxFeedLen == 2
MaxFetched == 14

Ids == 1..MaxIds

----------------------------------------------------------------------------
\* Values.

\* SQL NULL / Python None.  Every letter of a string is a one-letter string, so
\* this one-element sequence is no string of the program.
Null == <<"NULL">>

\* '0000-00-00 00:00:00', the implicit default of a NOT NULL DATETIME column.
ZeroDate == 0

EmptyStr == << >>
sA == <<"a">>
sB == <<"b">>
sAB == <<"A", "b">>
sBlank == <<" ">>

StrCols == {"url", "name", "title", "image", "video", "user", "poster", "script"}
NotNullCols == {"url", "name", "title"}
NullableCols == StrCols \ NotNullCols

\* dict.get(k) and the None default of an optional pydantic field.
Get(d, k) == IF k \in DOMAIN d THEN d[k] ELSE Null

RECURSIVE lstrip(_)
lstrip(s) == IF s # << >> /\ Head(s) = " " THEN lstrip(Tail(s)) ELSE s

RECURSIVE rstrip(_)
rstrip(s) == IF s # << >> /\ s[Len(s)] = " " THEN rstrip(SubSeq(s, 1, Len(s) - 1)) ELSE s

\* str.strip()
strip(s) == rstrip(lstrip(s))

\* A VideoUpdate without the validator: values are taken as given.
empty_to_none_absent(v) == v

\* VideoUpdate.empty_to_none: a string that is empty once stripped becomes None.
empty_to_none(v) == IF v # Null /\ strip(v) = EmptyStr THEN Null ELSE v

----------------------------------------------------------------------------
\* Resource API handlers.  Each returns the table after the request, the HTTP
\* status and the body (<<row>> or << >>).

Result(db, status, body) == [db |-> db, status |-> status, body |-> body]

\* db.query(Video).filter(Video.id == video_id).first(): <<row>> or << >>.
get_video_query(db, video_id) ==
    IF video_id \in DOMAIN db THEN <<db[video_id]>> ELSE << >>

\* A get_video whose increment never reaches the table (the commit left out).
get_video_commit_unsaved(db, video, t) == db

\* video.views += 1; db.commit() for the object `video` loaded by the query: the
\* flush writes the value computed from the loaded object, and the onupdate of
\* updated_at, to the row as it is in the table by then.
get_video_commit(db, video, t) ==
    [db EXCEPT ![video.id] = [@ EXCEPT !.views = video.views + 1, !.updated_at = t]]

\* get_video, the whole handler when no other request runs in between.
get_video(db, video_id, t) ==
    LET found == get_video_query(db, video_id)
    IN IF found = << >>
       THEN Result(db, 404, << >>)
       ELSE LET db2 == get_video_commit(db, found[1], t)
            IN Result(db2, 200, <<db2[video_id]>>)

\* create_video; t_created and t_updated are the two reads of datetime.utcnow
\* made for the column defaults of created_at and updated_at.
create_video(db, payload, new_id, t_created, t_updated) ==
    LET video == [id |-> new_id,
                  url |-> payload.url,
                  name |-> payload.name,
                  title |-> payload.title,
                  image |-> Get(payload, "image"),
                  video |-> Get(payload, "video"),
                  user |-> Get(payload, "user"),
                  poster |-> Get(payload, "poster"),
                  script |-> Get(payload, "script"),
                  views |-> 0,
                  created_at |-> t_created,
                  updated_at |-> t_updated]
         db2 == [i \in DOMAIN db \cup {new_id} |-> IF i = new_id THEN video ELSE db[i]]
    IN Result(db2, 201, <<db2[new_id]>>)

\* payload.dict() without exclude_unset: every field of VideoUpdate is a key, the
\* ones not given with None.
update_fields_with_unset(payload) == [k \in StrCols |-> empty_to_none(Get(payload, k))]

\* payload.dict(exclude_unset=True) of a validated VideoUpdate: the keys given,
\* each value passed through empty_to_none.
update_fields(payload) == [k \in DOMAIN payload |-> empty_to_none(payload[k])]

\* The UPDATE statement of the flush for a row whose attributes were set: a NULL
\* for a NOT NULL column is an error in strict mode and becomes the implicit
\* default '' otherwise.
flush_update(video, strict) ==
    LET bad == {c \in NotNullCols : video[c] = Null}
    IN IF bad = {} THEN [ok |-> TRUE, row |-> video]
       ELSE IF strict THEN [ok |-> FALSE, row |-> video]
       ELSE [ok |-> TRUE,
             row |-> [c \in DOMAIN video |-> IF c \in bad THEN EmptyStr ELSE video[c]]]

\* An update_video without the check for an empty set of updates.
update_video_unchecked(db, video_id, payload, t, strict) ==
    IF video_id \notin DOMAIN db THEN Result(db, 404, << >>)
    ELSE LET updates == update_fields(payload)
             video == db[video_id]
             set == [c \in DOMAIN video |->
                       IF c \in DOMAIN updates THEN updates[c]
                       ELSE IF c = "updated_at" THEN t
                       ELSE video[c]]
             f == flush_update(set, strict)
         IN IF ~f.ok THEN Result(db, 500, << >>)
            ELSE LET db2 == [db EXCEPT ![video_id] = f.row]
                 IN Result(db2, 200, <<db2[video_id]>>)

update_video(db, video_id, payload, t, strict) ==
    LET updates == update_fields(payload)
    IN IF DOMAIN updates = {} THEN Result(db, 400, << >>)
       ELSE IF video_id \notin DOMAIN db THEN Result(db, 404, << >>)
       ELSE LET video == db[video_id]
                set == [c \in DOMAIN video |->
                          IF c \in DOMAIN updates THEN updates[c]
                          ELSE IF c = "updated_at" THEN t
                          ELSE video[c]]
                f == flush_update(set, strict)
            IN IF ~f.ok THEN Result(db, 500, << >>)
               ELSE LET db2 == [db EXCEPT ![video_id] = f.row]
                    IN Result(db2, 200, <<db2[video_id]>>)

delete_video(db, video_id) ==
    IF video_id \notin DOMAIN db
    THEN Result(db, 404, << >>)
    ELSE Result([i \in DOMAIN db \ {video_id} |-> db[i]], 204, << >>)

----------------------------------------------------------------------------
\* List and Search.

\* lower() of the database.
lower(s) == [i \in 1..Len(s) |-> IF s[i] = "A" THEN "a" ELSE IF s[i] = "B" THEN "b" ELSE s[i]]

Contains(s, q) == \E i \in 0..(Len(s) - Len(q)) : SubSeq(s, i + 1, i + Len(q)) = q

\* column ILIKE '%q%': NULL matches nothing.
ilike(col, q) == col # Null /\ Contains(lower(col), lower(q))

\* Weight of a letter in the case-insensitive collation of the table.
CharWeight(c) == IF c = " " THEN 0 ELSE IF c \in {"a", "A"} THEN 1 ELSE 2

RECURSIVE StrLeq(_, _)
StrLeq(s, t) ==
    IF s = << >> THEN TRUE
    ELSE IF t = << >> THEN FALSE
    ELSE IF CharWeight(Head(s)) # CharWeight(Head(t))
         THEN CharWeight(Head(s)) < CharWeight(Head(t))
         ELSE StrLeq(Tail(s), Tail(t))

\* Python None for the sort_by parameter.
NoSort == "None"

\* ORDER BY of list_videos: whether row x may come right before row y.
list_order(sort_by, x, y) ==
    IF sort_by = "views" THEN x.views >= y.views
    ELSE IF sort_by = "title" THEN StrLeq(x.title, y.title)
    ELSE x.created_at >= y.created_at

\* The orders in which the database may return the rows `ids` of db under an
\* ORDER BY: rows with equal keys come in any order.
RowOrders(db, ids, sort_by) ==
    { s \in [1..Cardinality(ids) -> ids] :
        /\ \A i, j \in DOMAIN s : i # j => s[i] # s[j]
        /\ \A i \in DOMAIN s : i < Len(s) => list_order(sort_by, db[s[i]], db[s[i + 1]]) }

\* query.offset(offset).limit(page_size).all() over the ordered ids.
offset_limit(db, order, offset, page_size) ==
    LET n == IF Len(order) - offset < 0 THEN 0
             ELSE IF Len(order) - offset < page_size THEN Len(order) - offset
             ELSE page_size
    IN [k \in 1..n |-> db[order[offset + k]]]

\* A list_videos that rounds total_pages down.
list_videos_floor(db, page, page_size, order) ==
    LET total == Cardinality(DOMAIN db)
        offset == (page - 1) * page_size
        total_pages == total \div page_size
        videos == offset_limit(db, order, offset, page_size)
    IN Result(db, 200, [total |-> total, page |-> page, page_size |-> page_size,
                        total_pages |-> total_pages, videos |-> videos])

\* list_videos; `order` is the order the database returns the rows in.
list_videos(db, page, page_size, order) ==
    LET total == Cardinality(DOMAIN db)
        offset == (page - 1) * page_size
        total_pages == (total + page_size - 1) \div page_size
        videos == offset_limit(db, order, offset, page_size)
    IN Result(db, 200, [total |-> total, page |-> page, page_size |-> page_size,
                        total_pages |-> total_pages, videos |-> videos])

\* The filter of search_videos.
search_filter(db, q) ==
    { i \in DOMAIN db : ilike(db[i].title, q) \/ ilike(db[i].name, q) \/ ilike(db[i].script, q) }

\* search_videos; `order` is the order the database returns the matching rows in.
search_videos(db, q, page, page_size, order) ==
    LET total == Cardinality(search_filter(db, q))
        offset == (page - 1) * page_size
        total_pages == (total + page_size - 1) \div page_size
        videos == offset_limit(db, order, offset, page_size)
    IN Result(db, 200, [total |-> total, page |-> page, page_size |-> page_size,
                        total_pages |-> total_pages, videos |-> videos])

----------------------------------------------------------------------------
\* Ingestion Sync (quip_download.py).  A feed is a sequence of JSON values: an
\* object is a function from its keys to its values, any other JSON value is
\* NotObject.

NotObject == [scalar |-> TRUE]
IsObject(video) == "scalar" \notin DOMAIN video

\* An upsert whose ON DUPLICATE KEY UPDATE leaves views out.
execute_upsert_keeping_views(db, video, strict) ==
    IF \E k \in {"id", "url", "name", "title", "views"} : k \notin DOMAIN video
    THEN [ok |-> FALSE, db |-> db]
    ELSE IF strict THEN [ok |-> FALSE, db |-> db]
    ELSE LET incoming == [id |-> video.id, url |-> video.url, name |-> video.name,
                          title |-> video.title, image |-> Get(video, "image"),
                          video |-> Get(video, "video"), user |-> Get(video, "user"),
                          views |-> video.views, poster |-> Get(video, "poster"),
                          script |-> Get(video, "script")]
             row == IF video.id \in DOMAIN db
                    THEN [c \in DOMAIN db[video.id] |->
                            IF c \in DOMAIN incoming \ {"views"} THEN incoming[c]
                            ELSE db[video.id][c]]
                    ELSE [c \in DOMAIN incoming \cup {"created_at", "updated_at"} |->
                            IF c \in DOMAIN incoming THEN incoming[c] ELSE ZeroDate]
         IN [ok |-> TRUE,
             db |-> [i \in DOMAIN db \cup {video.id} |-> IF i = video.id THEN row ELSE db[i]]]

\* An upsert that adds the incoming views to the views of the row it finds.
execute_upsert_adding_views(db, video, strict) ==
    IF \E k \in {"id", "url", "name", "title", "views"} : k \notin DOMAIN video
    THEN [ok |-> FALSE, db |-> db]
    ELSE IF strict THEN [ok |-> FALSE, db |-> db]
    ELSE LET incoming == [id |-> video.id, url |-> video.url, name |-> video.name,
                          title |-> video.title, image |-> Get(video, "image"),
                          video |-> Get(video, "video"), user |-> Get(video, "user"),
                          views |-> video.views, poster |-> Get(video, "poster"),
                          script |-> Get(video, "script")]
             row == IF video.id \in DOMAIN db
                    THEN [c \in DOMAIN db[video.id] |->
                            IF c = "views" THEN db[video.id].views + video.views
                            ELSE IF c \in DOMAIN incoming THEN incoming[c]
                            ELSE db[video.id][c]]
                    ELSE [c \in DOMAIN incoming \cup {"created_at", "updated_at"} |->
                            IF c \in DOMAIN incoming THEN incoming[c] ELSE ZeroDate]
         IN [ok |-> TRUE,
             db |-> [i \in DOMAIN db \cup {video.id} |-> IF i = video.id THEN row ELSE db[i]]]

\* cursor.execute(sql, payload) on the open transaction `db`: INSERT ... ON
\* DUPLICATE KEY UPDATE with the columns id..script, the timestamps left to the
\* table.  A missing key is None, and NULL is refused for the NOT NULL columns;
\* created_at and updated_at have no database default (the defaults of the
\* Video class are applied by the ORM, not by the table), which strict mode
\* refuses and which otherwise gives the zero date.
execute_upsert(db, video, strict) ==
    IF \E k \in {"id", "url", "name", "title", "views"} : k \notin DOMAIN video
    THEN [ok |-> FALSE, db |-> db]
    ELSE IF strict THEN [ok |-> FALSE, db |-> db]
    ELSE LET incoming == [id |-> video.id,
                          url |-> video.url,
                          name |-> video.name,
                          title |-> video.title,
                          image |-> Get(video, "image"),
                          video |-> Get(video, "video"),
                          user |-> Get(video, "user"),
                          views |-> video.views,
                          poster |-> Get(video, "poster"),
                          script |-> Get(video, "script")]
             row == IF video.id \in DOMAIN db
                    THEN [c \in DOMAIN db[video.id] |->
                            IF c \in DOMAIN incoming THEN incoming[c] ELSE db[video.id][c]]
                    ELSE [c \in DOMAIN incoming \cup {"created_at", "updated_at"} |->
                            IF c \in DOMAIN incoming THEN incoming[c] ELSE ZeroDate]
         IN [ok |-> TRUE,
             db |-> [i \in DOMAIN db \cup {video.id} |-> IF i = video.id THEN row ELSE db[i]]]

\* The for loop of upsert_videos from element idx on.  A database error is
\* caught and the loop goes on; video.get on a value that is no object raises
\* AttributeError, which nothing catches.
RECURSIVE upsert_loop(_, _, _, _)
upsert_loop(db, videos, idx, strict) ==
    IF idx > Len(videos) THEN [db |-> db, raised |-> FALSE]
    ELSE IF ~IsObject(videos[idx]) THEN [db |-> db, raised |-> TRUE]
    ELSE upsert_loop(execute_upsert(db, videos[idx], strict).db, videos, idx + 1, strict)

\* upsert_videos: the loop, then one commit; an exception that leaves the
\* function closes the connection without a commit.
upsert_videos(db, videos, strict) ==
    LET r == upsert_loop(db, videos, 1, strict)
    IN IF r.raised THEN Result(db, 1, << >>) ELSE Result(r.db, 0, << >>)

\* main of quip_download.py, after a successful fetch of the feed.
main(db, videos, strict) ==
    IF videos = << >> THEN Result(db, 0, << >>) ELSE upsert_videos(db, videos, strict)

----------------------------------------------------------------------------
\* Inputs.

NoKeys == [k \in {} |-> Null]

CreatePayloads ==
    { [url |-> sA, name |-> sA, title |-> sA],
      [url |-> sB, name |-> sB, title |-> sAB, image |-> sA, script |-> sB] }

UpdatePayloads ==
    { NoKeys, [title |-> sB], [script |-> EmptyStr], [url |-> EmptyStr] }

\* Update payloads over every field: one key with a value or with "", explicit
\* nulls, whitespace, several keys.
AllUpdatePayloads ==
    { [k \in {c} |-> v] : c \in StrCols, v \in {sB, EmptyStr} }
    \cup { NoKeys, [title |-> sBlank], [image |-> sBlank], [image |-> Null], [url |-> Null],
           [title |-> sB, script |-> EmptyStr],
           [c \in StrCols |-> sAB],
           [c \in NullableCols |-> EmptyStr] }

FeedVideo(id, title, views) ==
    [id |-> id, url |-> sA, name |-> sA, title |-> title, views |-> views, script |-> sB]

FeedElems ==
    { FeedVideo(1, sA, 2),
      FeedVideo(1, sB, -1),
      [id |-> 1, url |-> sA, name |-> sA, views |-> 1],
      NotObject }

Feeds == UNION { [1..n -> FeedElems] : n \in 0..MaxFeedLen }

Row1 ==
    [id |-> 1, url |-> sA, name |-> sA, title |-> sA, image |-> sA, video |-> Null,
     user |-> sB, poster |-> Null, script |-> sAB, views |-> 1,
     created_at |-> 1, updated_at |-> 1]

Row2 ==
    [id |-> 2, url |-> sB, name |-> sB, title |-> sB, image |-> Null, video |-> Null,
     user |-> Null, poster |-> Null, script |-> Null, views |-> 0,
     created_at |-> 1, updated_at |-> 1]

EmptyStore == [i \in {} |-> Row1]

InitStores == { EmptyStore, [i \in {1} |-> Row1], [i \in {1, 2} |-> IF i = 1 THEN Row1 ELSE Row2] }

Idle == [pc |-> "idle"]

\* What `last` records of a request: the operation, its input, the clock value
\* it read, its outcome and the table before it.  streak counts the successful
\* get_video requests of the same id, or the sync runs with the same feed, served
\* in a row up to this one, and base is the table before the first of them.
Request(op, id, payload, r, before, t) ==
    [op |-> op, id |-> id, payload |-> payload, at |-> t, status |-> r.status,
     body |-> r.body, before |-> before, streak |-> 0, base |-> before]

----------------------------------------------------------------------------
\* The service with one request served at a time.

Init ==
    /\ store \in InitStores
    /\ now = 2
    /\ (sql_strict = TRUE \/ sql_strict = FALSE)
    /\ nops = 0
    /\ last = Request("none", 0, NoKeys, Result(store, 0, << >>), store, now)
    /\ sess = << >>

\* datetime.utcnow(): the clock has stepped since it was last read, or has not.
Clock(t) == {t, t + 1}

GetVideo ==
    /\ nops < MaxOps
    /\ \E video_id \in Ids, t \in Clock(now) :
         LET r == get_video(store, video_id, t)
             continues == /\ last.op = "get" /\ last.id = video_id
                          /\ last.status = 200 /\ r.status = 200
         IN /\ store' = r.db
            /\ now' = IF r.status = 200 THEN t ELSE now
            /\ last' = [Request("get", video_id, NoKeys, r, store, t) EXCEPT
                          !.streak = IF continues THEN last.streak + 1
                                     ELSE IF r.status = 200 THEN 1 ELSE 0,
                          !.base = IF continues THEN last.base ELSE store]
    /\ nops' = nops + 1
    /\ UNCHANGED <<sql_strict, sess>>

\* uuid4 gives an id no row has; the clock may step between the two reads of
\* datetime.utcnow made for the defaults of created_at and updated_at.
CreateVideo ==
    /\ nops < MaxOps
    /\ \E payload \in CreatePayloads, new_id \in Ids \ DOMAIN store :
         \E t_created \in Clock(now) :
            \E t_updated \in Clock(t_created) :
               LET r == create_video(store, payload, new_id, t_created, t_updated)
               IN /\ store' = r.db
                  /\ now' = t_updated
                  /\ last' = Request("create", new_id, payload, r, store, t_created)
    /\ nops' = nops + 1
    /\ UNCHANGED <<sql_strict, sess>>

UpdateVideoFrom(payloads, limit) ==
    /\ nops < limit
    /\ \E video_id \in Ids, payload \in payloads, t \in Clock(now) :
         LET r == update_video(store, video_id, payload, t, sql_strict)
         IN /\ store' = r.db
            /\ now' = IF r.status \in {200, 500} THEN t ELSE now
            /\ last' = Request("update", video_id, payload, r, store, t)
    /\ nops' = nops + 1
    /\ UNCHANGED <<sql_strict, sess>>

UpdateVideo == UpdateVideoFrom(UpdatePayloads, MaxOps)

DeleteVideo ==
    /\ nops < MaxOps
    /\ \E video_id \in Ids :
         LET r == delete_video(store, video_id)
         IN /\ store' = r.db
            /\ last' = Request("delete", video_id, NoKeys, r, store, now)
    /\ nops' = nops + 1
    /\ UNCHANGED <<now, sql_strict, sess>>

IngestionSync ==
    /\ nops < MaxOps
    /\ \E videos \in Feeds :
         LET r == main(store, videos, sql_strict)
             continues == last.op = "sync" /\ last.payload = videos
         IN /\ store' = r.db
            /\ last' = [Request("sync", 0, videos, r, store, now) EXCEPT
                          !.streak = IF continues THEN last.streak + 1 ELSE 1,
                          !.base = IF continues THEN last.base ELSE store]
    /\ nops' = nops + 1
    /\ UNCHANGED <<now, sql_strict, sess>>

Next ==
    \/ GetVideo
    \/ CreateVideo
    \/ UpdateVideo
    \/ DeleteVideo
    \/ IngestionSync

Spec == Init /\ [][Next]_vars

----------------------------------------------------------------------------
\* Update requests with payloads over every field, on the tables of Init.

UpdateVideoAny == UpdateVideoFrom(AllUpdatePayloads, MaxWideOps)

UpdateNext == UpdateVideoAny

UpdateSpec == Init /\ [][UpdateNext]_vars

----------------------------------------------------------------------------
\* List and Search requests on tables of up to MaxRows rows.

ListRow(i, k) ==
    [id |-> i, url |-> sA,
     name |-> IF k = 1 THEN sA ELSE sB,
     title |-> IF k = 1 THEN sAB ELSE sB,
     image |-> Null, video |-> Null, user |-> Null, poster |-> Null,
     script |-> IF k = 2 THEN sA ELSE Null,
     views |-> IF k = 3 THEN 0 ELSE 2,
     created_at |-> IF k = 1 THEN 1 ELSE 2,
     updated_at |-> 2]

ListStores ==
    UNION { { [i \in 1..n |-> ListRow(i, kind[i])] : kind \in [1..n -> 1..3] } : n \in 0..MaxRows }

Queries == { sA, sB, <<"a", "b">>, <<"B">> }

ListInit ==
    /\ store \in ListStores
    /\ now = 2
    /\ sql_strict = TRUE
    /\ nops = 0
    /\ last = Request("none", 0, NoKeys, Result(store, 0, << >>), store, now)
    /\ sess = << >>

\* A read leaves the table as it is, so the responses to a second request are
\* those to a first one: one request is served on each table.
ListVideos ==
    /\ nops = 0
    /\ \E sort_by \in {NoSort, "views", "title", "created_at"} :
         \E order \in RowOrders(store, DOMAIN store, sort_by) :
            \E page \in 1..MaxPage, page_size \in 1..MaxPageSize :
               LET r == list_videos(store, page, page_size, order)
               IN /\ store' = r.db
                  /\ last' = Request("list", 0,
                                     [page |-> page, page_size |-> page_size, sort_by |-> sort_by],
                                     r, store, now)
    /\ nops' = 1
    /\ UNCHANGED <<now, sql_strict, sess>>

SearchVideos ==
    /\ nops = 0
    /\ \E q \in Queries :
         \E order \in RowOrders(store, search_filter(store, q), "views") :
            \E page \in 1..MaxPage, page_size \in 1..MaxPageSize :
               LET r == search_videos(store, q, page, page_size, order)
               IN /\ store' = r.db
                  /\ last' = Request("search", 0,
                                     [q |-> q, page |-> page, page_size |-> page_size],
                                     r, store, now)
    /\ nops' = 1
    /\ UNCHANGED <<now, sql_strict, sess>>

ListNext ==
    \/ ListVideos
    \/ SearchVideos

ListSpec == ListInit /\ [][ListNext]_vars

----------------------------------------------------------------------------
\* get_video requests served concurrently, each by a worker with a session of
\* its own: the query and the commit of one request are two steps, and steps of
\* other requests may come in between.

Workers == 1..NumWorkers

ConcInit ==
    /\ store \in InitStores
    /\ now = 2
    /\ sql_strict = TRUE
    /\ nops = 0
    /\ last = Request("none", 0, NoKeys, Result(store, 0, << >>), store, now)
    /\ sess = [w \in Workers |-> Idle]

GetVideoQuery(w) ==
    /\ sess[w].pc = "idle"
    /\ \E video_id \in Ids :
         LET found == get_video_query(store, video_id)
         IN sess' = [sess EXCEPT ![w] =
                       IF found = << >>
                       THEN [pc |-> "done", id |-> video_id, status |-> 404, body |-> << >>]
                       ELSE [pc |-> "loaded", id |-> video_id, video |-> found[1]]]
    /\ UNCHANGED <<store, now, sql_strict, nops, last>>

GetVideoCommit(w) ==
    /\ sess[w].pc = "loaded"
    /\ \E t \in Clock(now) :
         /\ store' = get_video_commit(store, sess[w].video, t)
         /\ now' = t
    /\ sess' = [sess EXCEPT ![w] =
                  [pc |-> "done", id |-> sess[w].id, status |-> 200,
                   body |-> <<store'[sess[w].id]>>]]
    /\ UNCHANGED <<sql_strict, nops, last>>

ConcNext ==
    \/ \E w \in Workers : GetVideoQuery(w)
    \/ \E w \in Workers : GetVideoCommit(w)

ConcSpec == ConcInit /\ [][ConcNext]_vars

----------------------------------------------------------------------------
\* Properties of the service with one request served at a time.

Served(op) == last.op = op
RowBefore == last.before[last.id]
RowAfter == store[last.id]
OtherRowsUnchanged ==
    /\ DOMAIN store \ {last.id} = DOMAIN last.before \ {last.id}
    /\ \A j \in DOMAIN store \ {last.id} : store[j] = last.before[j]

\* C1: k successful GetById calls of the same id in a row, with no other
\* operation in between, increase the stored views of that id by exactly k; each
\* call returns the row with views one higher than before it; every field of the
\* row other than views and updated_at, and every other row, is unchanged.
GetByIdMonotonic ==
    (Served("get") /\ last.status = 200) =>
        /\ last.id \in DOMAIN last.before /\ last.id \in DOMAIN store
        /\ last.id \in DOMAIN last.base
        /\ last.streak >= 1
        /\ RowAfter.views = last.base[last.id].views + last.streak
        /\ RowAfter.views = RowBefore.views + 1
        /\ last.body = <<RowAfter>>
        /\ \A c \in DOMAIN RowAfter \ {"views", "updated_at"} :
              RowAfter[c] = last.base[last.id][c]
        /\ DOMAIN RowAfter = DOMAIN RowBefore
        /\ DOMAIN store = DOMAIN last.base
        /\ \A j \in DOMAIN store \ {last.id} : store[j] = last.base[j]

\* Two GetById calls of one id in a row have been served.
GetByIdTwiceInARow == Served("get") /\ last.status = 200 /\ last.streak >= 2

\* C6: GetById, Update with at least one key and Delete of an id that has no row
\* answer 404, Update without keys answers 400 whether or not the id exists, and
\* a request that fails leaves the table as it was.
FailedRequestLeavesStore ==
    /\ ((Served("get") \/ Served("delete")) /\ last.id \notin DOMAIN last.before)
          => last.status = 404
    /\ (Served("update") /\ DOMAIN last.payload # {} /\ last.id \notin DOMAIN last.before)
          => last.status = 404
    /\ (Served("update") /\ DOMAIN last.payload = {}) => last.status = 400
    /\ last.status \in {400, 404, 500} => store = last.before

\* An Update without keys of a row that exists has been refused, at a time
\* later than the last change of the row.
EmptyUpdateRefused ==
    /\ Served("update") /\ last.status = 400 /\ last.id \in DOMAIN last.before
    /\ last.at > RowBefore.updated_at

\* C8: Create adds exactly one row, under an id no row had, with views = 0,
\* created_at equal to updated_at, the url, name and title supplied and the
\* optional fields supplied or else absent; the rows there before are unchanged.
CreateAddsFreshRow ==
    Served("create") =>
        /\ last.status = 201
        /\ last.id \notin DOMAIN last.before
        /\ DOMAIN store = DOMAIN last.before \cup {last.id}
        /\ OtherRowsUnchanged
        /\ RowAfter.views = 0
        /\ RowAfter.created_at = RowAfter.updated_at
        /\ \A c \in StrCols : RowAfter[c] = Get(last.payload, c)

\* C9: every row has views >= 0.
ViewsNeverNegative == \A i \in DOMAIN store : store[i].views >= 0

\* C10: an operation that changes a row sets its updated_at to the time of the
\* operation and keeps its created_at; created_at <= updated_at for every row.
UpdatedAtRefreshedOnMutation ==
    /\ \A i \in DOMAIN store \cap DOMAIN last.before :
          store[i] # last.before[i] =>
              /\ store[i].updated_at = last.at
              /\ store[i].created_at = last.before[i].created_at
    /\ \A i \in DOMAIN store : store[i].created_at <= store[i].updated_at

----------------------------------------------------------------------------
\* Properties of Update.

UpdatedExisting == Served("update") /\ last.status = 200
Blank(v) == v # Null /\ strip(v) = EmptyStr
KeysGiven(v) == {f \in DOMAIN last.payload : last.payload[f] = v}

\* C4 as stated: a field given "" keeps its stored value, as a field that is
\* not given does.
EmptyStringLikeOmitted ==
    (Served("update") /\ last.id \in DOMAIN last.before /\ last.id \in DOMAIN store) =>
        \A f \in KeysGiven(EmptyStr) : RowAfter[f] = RowBefore[f]

\* C4 as amended: "" for a field is equivalent to null for that field, not to
\* leaving the field out: the request has the outcome of the request with null
\* in place of every "", and a nullable field given "" is stored as NULL after a
\* successful Update, whatever it held.
EmptyStringLikeNull ==
    Served("update") =>
        LET nulled == [k \in DOMAIN last.payload |->
                          IF last.payload[k] = EmptyStr THEN Null ELSE last.payload[k]]
            r == update_video(last.before, last.id, nulled, last.at, sql_strict)
        IN /\ r.db = store
           /\ r.status = last.status
           /\ r.body = last.body
           /\ last.status = 200 =>
                 \A f \in KeysGiven(EmptyStr) \cap NullableCols : RowAfter[f] = Null

\* An Update has cleared a nullable field that held a value, by "".
EmptyStringClearedField ==
    /\ UpdatedExisting
    /\ \E f \in KeysGiven(EmptyStr) \cap NullableCols : RowBefore[f] # Null /\ RowAfter[f] = Null

\* C5: after a successful Update a field given "" is stored as NULL, never as
\* the empty string, url, name and title included.
EmptyStringStoredAsNull ==
    UpdatedExisting => \A f \in KeysGiven(EmptyStr) : RowAfter[f] = Null

\* C7 as stated: a successful Update changes only the keys given and
\* updated_at; every value given that is not "" is the value stored.
UpdateStoresNonEmptyValues ==
    UpdatedExisting =>
        /\ last.id \in DOMAIN last.before
        /\ DOMAIN store = DOMAIN last.before
        /\ OtherRowsUnchanged
        /\ \A c \in DOMAIN RowBefore \ (DOMAIN last.payload \cup {"updated_at"}) :
              RowAfter[c] = RowBefore[c]
        /\ \A f \in DOMAIN last.payload :
              (last.payload[f] # Null /\ last.payload[f] # EmptyStr) => RowAfter[f] = last.payload[f]
        /\ RowAfter.updated_at = last.at
        /\ RowAfter.updated_at >= RowBefore.updated_at

\* C7 as amended: a successful Update changes only the keys given and
\* updated_at: id, views, created_at and the fields not given keep their values,
\* the other rows are unchanged and none is added or removed; every value given
\* that is not empty once stripped of whitespace is the value stored; updated_at
\* is the time of the update, not earlier than before.
UpdateChangesOnlyGivenKeys ==
    UpdatedExisting =>
        /\ last.id \in DOMAIN last.before
        /\ DOMAIN store = DOMAIN last.before
        /\ OtherRowsUnchanged
        /\ DOMAIN RowAfter = DOMAIN RowBefore
        /\ \A c \in DOMAIN RowBefore \ (DOMAIN last.payload \cup {"updated_at"}) :
              RowAfter[c] = RowBefore[c]
        /\ \A f \in DOMAIN last.payload :
              (last.payload[f] # Null /\ ~Blank(last.payload[f])) => RowAfter[f] = last.payload[f]
        /\ RowAfter.updated_at = last.at
        /\ RowAfter.updated_at >= RowBefore.updated_at

\* An Update of some but not all fields has changed a row that is not the only
\* one, later than its last change.
PartialUpdateApplied ==
    /\ UpdatedExisting
    /\ Cardinality(DOMAIN store) >= 2
    /\ \E f \in DOMAIN last.payload : last.payload[f] = sB /\ RowBefore[f] # sB /\ RowAfter[f] = sB
    /\ \E c \in StrCols \ DOMAIN last.payload : RowBefore[c] # Null
    /\ RowAfter.updated_at > RowBefore.updated_at

----------------------------------------------------------------------------
\* Properties of List and Search.

Min(a, b) == IF a < b THEN a ELSE b
Max(a, b) == IF a > b THEN a ELSE b
Ceil(n, d) == CHOOSE c \in 0..n : c * d >= n /\ (c - 1) * d < n

Qualifying ==
    IF Served("list") THEN DOMAIN store
    ELSE { i \in DOMAIN store :
             \E c \in {"title", "name", "script"} :
                /\ store[i][c] # Null
                /\ \E k \in 0..Len(store[i][c]) :
                      k + Len(last.payload.q) <= Len(store[i][c])
                      /\ \A m \in 1..Len(last.payload.q) :
                            lower(<<store[i][c][k + m]>>) = lower(<<last.payload.q[m]>>) }

\* C3: a List or Search response has total = the number of rows that qualify,
\* total_pages = ceil(total / page_size) and min(page_size, max(0, total -
\* (page-1)*page_size)) rows, each a different qualifying row; the table is
\* left as it was.
PageArithmetic ==
    (Served("list") \/ Served("search")) =>
        LET total == Cardinality(Qualifying)
            page == last.payload.page
            page_size == last.payload.page_size
            videos == last.body.videos
        IN /\ last.status = 200
           /\ last.body.total = total
           /\ last.body.total_pages = Ceil(total, page_size)
           /\ Len(videos) = Min(page_size, Max(0, total - (page - 1) * page_size))
           /\ \A k \in DOMAIN videos : videos[k].id \in Qualifying /\ videos[k] = store[videos[k].id]
           /\ \A k, m \in DOMAIN videos : k # m => videos[k].id # videos[m].id
           /\ store = last.before

\* A Search has returned a last page that is not full, and it is not the first.
PartialLastPage ==
    /\ Served("search")
    /\ last.payload.page >= 2
    /\ Len(last.body.videos) >= 1
    /\ Len(last.body.videos) < last.payload.page_size
    /\ last.body.total_pages = last.payload.page

----------------------------------------------------------------------------
\* Properties of concurrent get_video requests.

\* C2: when every get_video request has completed, the views of each row are
\* its views at the start plus the number of requests that fetched it.
NoLostIncrement ==
    (sess # << >> /\ \A w \in DOMAIN sess : sess[w].pc = "done") =>
        \A i \in DOMAIN store :
            store[i].views = last.before[i].views
                + Cardinality({w \in DOMAIN sess : sess[w].id = i /\ sess[w].status = 200})

----------------------------------------------------------------------------
\* Properties of the Ingestion Sync.

\* C11: a sync run that follows a sync run with the same feed, with no other
\* operation in between, leaves the table as the first run left it; and
\* running the sync once more with the feed of the last run would change nothing.
SyncIdempotent ==
    Served("sync") =>
        /\ last.streak >= 2 => store = last.before
        /\ main(store, last.payload, sql_strict).db = store

\* The sync has run twice in a row with one feed of several records, and the
\* first run changed the table.
SyncRunTwice ==
    /\ Served("sync") /\ last.streak >= 2
    /\ Len(last.payload) >= 2
    /\ last.status = 0
    /\ store # last.base

\* The table a run over `videos` from element idx on has to leave when every
\* element that cannot be processed is skipped and the others are committed.
RECURSIVE SkippingBadRecords(_, _, _, _)
SkippingBadRecords(db, videos, idx, strict) ==
    IF idx > Len(videos) THEN db
    ELSE IF ~IsObject(videos[idx]) THEN SkippingBadRecords(db, videos, idx + 1, strict)
    ELSE SkippingBadRecords(execute_upsert(db, videos[idx], strict).db, videos, idx + 1, strict)

\* C12: after a sync run, whatever elements of the feed could not be
\* processed, the table holds the upserts of all the other elements: a bad
\* element is skipped, the later ones are still processed, and what succeeded
\* is committed.
NoBadRecordAbortsBatch ==
    Served("sync") => store = SkippingBadRecords(last.before, last.payload, 1, sql_strict)

FeedCols == {"url", "name", "title", "image", "video", "user", "views", "poster", "script"}

\* Whether the upsert of a feed record succeeds: it is an object that has the
\* columns that must not be NULL, and the session accepts a row without
\* timestamps.
Succeeded(video) ==
    /\ IsObject(video)
    /\ {"id", "url", "name", "title", "views"} \subseteq DOMAIN video
    /\ ~sql_strict

HasId(video, id) == IsObject(video) /\ "id" \in DOMAIN video /\ video.id = id

LastIndex(S) == CHOOSE k \in S : \A m \in S : m <= k

SyncCommitted == Served("sync") /\ last.status = 0 /\ last.payload # << >>

\* C13 as stated: after a successful run, the row of every record whose
\* upsert succeeded has url..script equal to the LAST feed record with its id,
\* and the rows whose id is not in the feed are unchanged and still there.
SyncLastRecordWins ==
    SyncCommitted =>
        /\ \A i \in DOMAIN last.payload :
              Succeeded(last.payload[i]) =>
                  LET id == last.payload[i].id
                      j == LastIndex({k \in DOMAIN last.payload : HasId(last.payload[k], id)})
                  IN /\ id \in DOMAIN store
                     /\ \A c \in FeedCols : store[id][c] = Get(last.payload[j], c)
        /\ \A id \in DOMAIN last.before :
              (~\E k \in DOMAIN last.payload : HasId(last.payload[k], id)) =>
                  id \in DOMAIN store /\ store[id] = last.before[id]

\* C13 as amended: after a successful run, the row of every record whose
\* upsert succeeded has url..script equal to the last feed record with its id
\* WHOSE UPSERT SUCCEEDED, whatever the row held before; the rows without such
\* a record are unchanged and still there, and no other row is added.
SyncLastSuccessfulWins ==
    SyncCommitted =>
        /\ \A i \in DOMAIN last.payload :
              Succeeded(last.payload[i]) =>
                  LET id == last.payload[i].id
                      j == LastIndex({k \in DOMAIN last.payload :
                                        HasId(last.payload[k], id) /\ Succeeded(last.payload[k])})
                  IN /\ id \in DOMAIN store
                     /\ store[id].id = id
                     /\ \A c \in FeedCols : store[id][c] = Get(last.payload[j], c)
        /\ \A id \in DOMAIN store \cup DOMAIN last.before :
              (~\E k \in DOMAIN last.payload :
                   HasId(last.payload[k], id) /\ Succeeded(last.payload[k])) =>
                  /\ id \in DOMAIN store /\ id \in DOMAIN last.before
                  /\ store[id] = last.before[id]

\* A sync of two good records of one id has overwritten the views of a row
\* that a GetById had incremented, next to a row that is not in the feed.
SyncOverwroteViews ==
    /\ SyncCommitted
    /\ Cardinality(DOMAIN store) >= 2
    /\ \E id \in DOMAIN last.before :
          /\ last.before[id].views = 2 /\ last.before[id].updated_at >= 2
          /\ \E i, j \in DOMAIN last.payload :
                /\ i < j /\ j = Len(last.payload)
                /\ Succeeded(last.payload[i]) /\ Succeeded(last.payload[j])
                /\ last.payload[i].id = id /\ last.payload[j].id = id
                /\ last.payload[i].views # last.payload[j].views
                /\ store[id].views = last.payload[j].views
                /\ store[id].views # last.before[id].views

----------------------------------------------------------------------------
\* Presentation Client (streamlit_front/app.py).  A video of the client is a
\* record with id, title and views; st.session_state is the variable sess, a
\* function from the keys set so far to their values.

\* videos_per_page of render_section and n of get_popular and get_featured.
VideosPerPage == 12
SectionSize == 12

\* page_size of GET /videos when the client gives none.
DefaultPageSize == 20

\* filter_by_title
filter_by_title(videos, query) ==
    IF query = EmptyStr THEN videos
    ELSE SelectSeq(videos, LAMBDA v : Contains(lower(v.title), lower(query)))

\* videos[start:end] of Python for 0 <= start, 0 <= end.
slice(videos, start, end) ==
    LET stop == IF end > Len(videos) THEN Len(videos) ELSE end
    IN IF start >= stop THEN << >> ELSE SubSeq(videos, start + 1, stop)

\* One step of the stable descending sort: v is put behind the videos that
\* have at least its views.
RECURSIVE insert_by_views(_, _)
insert_by_views(sorted, v) ==
    IF sorted = << >> THEN <<v>>
    ELSE IF Head(sorted).views >= v.views THEN <<Head(sorted)>> \o insert_by_views(Tail(sorted), v)
    ELSE <<v>> \o sorted

\* sorted(videos, key=views, reverse=True)
RECURSIVE sort_by_views(_)
sort_by_views(videos) ==
    IF videos = << >> THEN << >>
    ELSE insert_by_views(sort_by_views(SubSeq(videos, 1, Len(videos) - 1)), videos[Len(videos)])

get_popular(videos) == slice(sort_by_views(videos), 0, SectionSize)

\* random.sample(videos, min(n, len(videos))): of the samples it may draw, the
\* first videos in their order and the last ones in reverse order.
random_subset(videos, n) ==
    LET m == IF n < Len(videos) THEN n ELSE Len(videos)
    IN { slice(videos, 0, m), [i \in 1..m |-> videos[Len(videos) + 1 - i]] }

get_all(videos) == videos

\* title.lower().replace(" ", "_") of the three sections, in the order they
\* are rendered.
Sections == <<"popular", "everchanging_featured", "movie_title">>
SectionKeys == {Sections[i] : i \in DOMAIN Sections}

\* The key of a section in st.session_state, "page_" + section key, is
\* represented by the section key.

\* What a section shows of itself in a run; NotShown when render_section
\* returned early or was not reached.
NotShown == [shown |-> FALSE]

NoClick == <<"none", "none">>

\* render_section for the section `key` with session state `state`.  click is
\* the button the browser reports as pressed, <<"prev", key>> or <<"next", key>>
\* or NoClick; fires_disabled tells whether st.button returns True for a
\* pressed button that this run renders disabled.
render_section(state, key, videos, click, fires_disabled) ==
    IF videos = << >> THEN [state |-> state, view |-> NotShown, rerun |-> FALSE]
    ELSE
      LET total_pages == (Len(videos) + VideosPerPage - 1) \div VideosPerPage
          state1 == IF key \in DOMAIN state THEN state
                    ELSE [k \in DOMAIN state \cup {key} |-> IF k = key THEN 0 ELSE state[k]]
          current_page == state1[key]
          start_idx == current_page * VideosPerPage
          end_idx == IF start_idx + VideosPerPage < Len(videos)
                     THEN start_idx + VideosPerPage ELSE Len(videos)
          current_videos == slice(videos, start_idx, end_idx)
          controls == total_pages > 1
          prev_disabled == current_page = 0
          next_disabled == current_page >= total_pages - 1
          prev_pressed == /\ controls /\ click = <<"prev", key>>
                          /\ (~prev_disabled \/ fires_disabled)
          next_pressed == /\ controls /\ click = <<"next", key>>
                          /\ (~next_disabled \/ fires_disabled)
          state2 == IF prev_pressed THEN [state1 EXCEPT ![key] = current_page - 1]
                    ELSE IF next_pressed THEN [state1 EXCEPT ![key] = current_page + 1]
                    ELSE state1
      IN [state |-> state2,
          view |-> [shown |-> TRUE, total_pages |-> total_pages,
                    current_page |-> current_page, videos |-> current_videos,
                    prev |-> controls /\ ~prev_disabled,
                    next |-> controls /\ ~next_disabled],
          rerun |-> prev_pressed \/ next_pressed]

\* One run of the script from the top: the filter, then the three sections in
\* order; st.rerun() ends the run where it is called.
run_script(state, all_videos, search_query, featured, click, fires_disabled) ==
    LET filtered_videos == filter_by_title(all_videos, search_query)
        none == [k \in SectionKeys |-> NotShown]
    IN IF filtered_videos = << >> THEN [state |-> state, views |-> none, rerun |-> FALSE]
       ELSE
         LET r1 == render_section(state, Sections[1], get_popular(filtered_videos),
                                  click, fires_disabled)
             r2 == render_section(r1.state, Sections[2], featured, click, fires_disabled)
             r3 == render_section(r2.state, Sections[3], get_all(filtered_videos),
                                  click, fires_disabled)
         IN IF r1.rerun
            THEN [state |-> r1.state, views |-> [none EXCEPT ![Sections[1]] = r1.view],
                  rerun |-> TRUE]
            ELSE IF r2.rerun
            THEN [state |-> r2.state,
                  views |-> [none EXCEPT ![Sections[1]] = r1.view, ![Sections[2]] = r2.view],
                  rerun |-> TRUE]
            ELSE [state |-> r3.state,
                  views |-> [k \in SectionKeys |->
                               IF k = Sections[1] THEN r1.view
                               ELSE IF k = Sections[2] THEN r2.view ELSE r3.view],
                  rerun |-> r3.rerun]

\* The list GET /videos returns: n videos, the first k of them titled "a" and
\* the others "Ab".
ClientVideos(n, k) ==
    [i \in 1..n |-> [id |-> i, title |-> IF i <= k THEN sA ELSE sAB, views |-> i % 3]]

\* fetch_videos: the first page of the API, or [] when the request fails.
Fetched ==
    UNION { { ClientVideos(n, k) : k \in {0, 1, n} } :
              n \in 0..(IF MaxFetched < DefaultPageSize THEN MaxFetched ELSE DefaultPageSize) }

\* Values of the search box.
SearchQueries == { EmptyStr, sA, <<"B">> }

ClientInit ==
    /\ store = EmptyStore
    /\ now = 2
    /\ sql_strict = TRUE
    /\ nops = 0
    /\ sess = [k \in {} |-> 0]
    /\ last = [op |-> "none", q |-> EmptyStr, click |-> NoClick, before |-> sess,
               views |-> [k \in SectionKeys |-> NotShown], rerun |-> FALSE]

\* A run of the script with the search box holding q and the button `click`
\* reported as pressed; `fires` holds the answers st.button may give for a
\* pressed button that is rendered disabled.
ScriptRun(q, click, fires) ==
    /\ \E all_videos \in Fetched, fires_disabled \in fires :
         \E featured \in random_subset(filter_by_title(all_videos, q), SectionSize) :
            LET r == run_script(sess, all_videos, q, featured, click, fires_disabled)
            IN /\ sess' = r.state
               /\ last' = [op |-> "run", q |-> q, click |-> click, before |-> sess,
                           views |-> r.views, rerun |-> r.rerun]
    /\ UNCHANGED <<store, now, sql_strict, nops>>

\* The page is opened or reloaded in the session, or the search box is edited.
OpenOrSearch ==
    /\ ~last.rerun
    /\ \E q \in SearchQueries : ScriptRun(q, NoClick, {FALSE})

\* The user presses a button that the last run rendered enabled.
ClickButton ==
    /\ ~last.rerun
    /\ \E key \in SectionKeys, b \in {"prev", "next"} :
         /\ last.views[key].shown
         /\ last.views[key][b]
         /\ ScriptRun(last.q, <<b, key>>, BOOLEAN)

\* The run that st.rerun() asked for.
Rerun ==
    /\ last.rerun
    /\ ScriptRun(last.q, NoClick, {FALSE})

ClientNext ==
    \/ OpenOrSearch
    \/ ClickButton
    \/ Rerun

ClientSpec == ClientInit /\ [][ClientNext]_vars

----------------------------------------------------------------------------
\* Properties of the Presentation Client.

\* C14: in every run, each section that is rendered has its current page
\* within 0..total_pages-1, and a click in one section leaves the current page
\* of every other section as it was.
CurrentPageWithinBounds ==
    last.op = "run" =>
        /\ \A key \in SectionKeys :
              last.views[key].shown =>
                  /\ 0 <= last.views[key].current_page
                  /\ last.views[key].current_page <= last.views[key].total_pages - 1
        /\ \A key \in SectionKeys :
              (last.click # NoClick /\ last.click[2] # key /\ key \in DOMAIN last.before) =>
                  key \in DOMAIN sess /\ sess[key] = last.before[key]

====
